---- MODULE Spec2Model ----
(***************************************************************************)
(* Library panel service (package librarypanels): the three operations     *)
(* that keep dashboard JSON and the library panel tables in step.          *)
(*                                                                         *)
(*   LoadLibraryPanelsForDashboard    ("Expand")                           *)
(*   CleanLibraryPanelsForDashboard   ("Collapse")                         *)
(*   ConnectLibraryPanelsForDashboard ("Link")                             *)
(*                                                                         *)
(* A JSON object is a function from field names to values; a field that is *)
(* missing from the object is missing from the function's domain.  A panel *)
(* array is a sequence; Go index i is position i + 1 here.                 *)
(***************************************************************************)
EXTENDS Integers, Sequences, FiniteSets, TLC

VARIABLES cfg, dash, library, links, last, prev

vars == <<cfg, dash, library, links, last, prev>>

\* Longest panel array of a dashboard document.
MaxPanels == 2

-----------------------------------------------------------------------------
(* simplejson accessors, as the service uses them *)

\* The nil map MustMap() returns for a missing or non-map value.
NilMap == "nil-map"

Has(obj, key) == key \in DOMAIN obj

\* Json.Get(key).MustString(): the string, "" when the key is missing.
MustString(obj, key) == IF Has(obj, key) THEN obj[key] ELSE ""

\* Json.Get(key).MustMap(): the map, the nil map when the key is missing.
MustMap(obj, key) == IF Has(obj, key) THEN obj[key] ELSE NilMap

\* Json.Get(key).MustInt64(def...): the number, def when the key is missing
\* (def is 0 when the caller passes no default).
MustInt64(obj, key, def) == IF Has(obj, key) THEN obj[key] ELSE def

\* Json.Set(key, val) on an object.
SetKey(obj, key, val) ==
    [k \in DOMAIN obj \cup {key} |-> IF k = key THEN val ELSE obj[k]]

\* Json.SetIndex(i, val) on the panel array (pos = i + 1).
SetIndex(panels, pos, val) == [panels EXCEPT ![pos] = val]

\* libraryPanel.Interface() == nil
IsLibraryEntry(panel) == Has(panel, "libraryPanel")

-----------------------------------------------------------------------------
(* The documents and rows the model draws from *)

PlainEntries ==
    { [id |-> 5, gridPos |-> "G1", type |-> "text", title |-> "t"],
      [type |-> "text"] }

LibraryEntries ==
    { [id |-> 5, gridPos |-> "G1", libraryPanel |-> [uid |-> "abc", name |-> "Old"]],
      [gridPos |-> "G1", libraryPanel |-> [uid |-> "abc", name |-> "New"]],
      [id |-> 5, gridPos |-> "G1", libraryPanel |-> [uid |-> "zzz", name |-> "Zed"]],
      [id |-> 5, gridPos |-> "G1", libraryPanel |-> [uid |-> "", name |-> "Old"]],
      [id |-> 5, gridPos |-> "G1", libraryPanel |-> [uid |-> "abc", name |-> ""]],
      [id |-> 5, gridPos |-> "G1", libraryPanel |-> [name |-> "Old"]],
      [id |-> 5, libraryPanel |-> [uid |-> "abc"]],
      [id |-> 5, gridPos |-> "G1", type |-> "row",
       libraryPanel |-> [uid |-> "abc", name |-> "New"]] }

Entries == PlainEntries \cup LibraryEntries

PanelArrays == UNION { [1..n -> Entries] : n \in 0..MaxPanels }

\* models.Dashboard: Id, Uid and Data; hasPanels is whether Data has "panels".
Dashboards ==
    { [Id |-> iu[1], Uid |-> iu[2], hasPanels |-> TRUE, panels |-> p] :
        iu \in {<<1, "d1">>, <<0, "">>, <<1, "">>}, p \in PanelArrays }
    \cup
    { [Id |-> 1, Uid |-> "d1", hasPanels |-> FALSE, panels |-> <<>>] }

\* Rows of library_panel: UID, Name (not empty) and the Model blob, a valid
\* JSON object, so that the conversions of lines 78-86 succeed.
LibraryPanelRows ==
    [ abc |-> [UID |-> "abc", Name |-> "New",
               Model |-> [type |-> "graph", id |-> 99, gridPos |-> "G9"]],
      zzz |-> [UID |-> "zzz", Name |-> "Zed",
               Model |-> [type |-> "stat", title |-> "z",
                          libraryPanel |-> [uid |-> "old", name |-> "stale"]]] ]

\* A row of library_panel_dashboard.
LinkRow(uid, dashboardID) == [librarypanel |-> uid, dashboard |-> dashboardID]

\* The record of a call: the operation, the error it returned, the panel array
\* and link table it started from, whether the store answered, and the store
\* reads and writes it made.
NoCall == [op |-> "none", err |-> "nil", pre |-> <<>>, preLinks |-> <<>>,
           storeOk |-> TRUE, reads |-> 0, writes |-> 0]

-----------------------------------------------------------------------------
\* Fault variant: the nil check on Cfg is missing.
IsEnabled_IgnoresNilCfg == cfg # "disabled"

\* Lines 39-45.
IsEnabled == cfg = "enabled"

Init ==
    /\ cfg \in {"nil", "disabled", "enabled"}
    /\ dash \in Dashboards
    /\ library = LibraryPanelRows
    /\ links \in {<<>>, <<LinkRow("abc", 1)>>}
    /\ last = NoCall
    /\ prev = NoCall

-----------------------------------------------------------------------------
(* Reference store collaborators (database.go of the package) *)

\* getLibraryPanelsForDashboardID: the library panels connected to the
\* dashboard through library_panel_dashboard, keyed by UID.
getLibraryPanelsForDashboardID(dashboardID) ==
    LET uids == { links[k].librarypanel : k \in
                    { j \in DOMAIN links : links[j].dashboard = dashboardID } }
                \cap DOMAIN library
    IN  [u \in uids |-> library[u]]

\* connectDashboard: inserts the link row; a row that violates the unique
\* index (librarypanel_id, dashboard_id) is not inserted and is no error.
connectDashboard(rows, uid, dashboardID) ==
    IF \E k \in DOMAIN rows : rows[k] = LinkRow(uid, dashboardID)
    THEN rows
    ELSE Append(rows, LinkRow(uid, dashboardID))

-----------------------------------------------------------------------------
(* LoadLibraryPanelsForDashboard *)

\* Fault variant: gridPos is not set back, the stored model's stays.
ExpandedEntry_KeepsModelGridPos(panel, libraryPanelInDB) ==
    SetKey(SetKey(libraryPanelInDB.Model,
                  "id", MustInt64(panel, "id", 0)),
           "libraryPanel", [uid  |-> libraryPanelInDB.UID,
                            name |-> libraryPanelInDB.Name])

\* Fault variant: the name embedded in the dashboard is kept.
ExpandedEntry_KeepsEmbeddedName(panel, libraryPanelInDB) ==
    SetKey(SetKey(SetKey(libraryPanelInDB.Model,
                         "gridPos", MustMap(panel, "gridPos")),
                  "id", MustInt64(panel, "id", 0)),
           "libraryPanel", [uid  |-> libraryPanelInDB.UID,
                            name |-> MustString(panel.libraryPanel, "name")])

\* Lines 88-98: the stored model replaces the entry, then the dashboard's
\* gridPos and id and the stored uid and name are set on it.
ExpandedEntry(panel, libraryPanelInDB) ==
    SetKey(SetKey(SetKey(libraryPanelInDB.Model,
                         "gridPos", MustMap(panel, "gridPos")),
                  "id", MustInt64(panel, "id", 0)),
           "libraryPanel", [uid  |-> libraryPanelInDB.UID,
                            name |-> libraryPanelInDB.Name])

\* Fault variant: the connection is looked up before the uid is checked.
LoadEntry_LooksUpFirst(panels, pos, libraryPanels) ==
    LET panel == panels[pos] IN
    IF ~IsLibraryEntry(panel)
    THEN [err |-> "nil", panels |-> panels]
    ELSE LET uid == MustString(panel.libraryPanel, "uid") IN
         IF uid \notin DOMAIN libraryPanels
         THEN [err |-> "no-connection", panels |-> panels]
         ELSE IF Len(uid) = 0
         THEN [err |-> "no-uid", panels |-> panels]
         ELSE [err |-> "nil",
               panels |-> SetIndex(panels, pos,
                                   ExpandedEntry(panel, libraryPanels[uid]))]

\* One iteration of the loop of lines 59-99 at position pos.
LoadEntry(panels, pos, libraryPanels) ==
    LET panel == panels[pos] IN
    IF ~IsLibraryEntry(panel)
    THEN [err |-> "nil", panels |-> panels]
    ELSE LET uid == MustString(panel.libraryPanel, "uid") IN
         IF Len(uid) = 0
         THEN [err |-> "no-uid", panels |-> panels]
         ELSE IF uid \notin DOMAIN libraryPanels
         THEN [err |-> "no-connection", panels |-> panels]
         ELSE [err |-> "nil",
               panels |-> SetIndex(panels, pos,
                                   ExpandedEntry(panel, libraryPanels[uid]))]

RECURSIVE LoadLoop(_, _, _)
LoadLoop(panels, pos, libraryPanels) ==
    IF pos > Len(panels)
    THEN [err |-> "nil", panels |-> panels]
    ELSE LET r == LoadEntry(panels, pos, libraryPanels) IN
         IF r.err # "nil" THEN r ELSE LoadLoop(r.panels, pos + 1, libraryPanels)

\* The call as a whole: the error returned, the panel array left in dash.Data
\* and the number of store reads made.
LoadResult(d, storeOk) ==
    IF ~IsEnabled
    THEN [err |-> "nil", panels |-> d.panels, reads |-> 0]
    ELSE IF ~storeOk
    THEN [err |-> "store", panels |-> d.panels, reads |-> 1]
    ELSE LET r == LoadLoop(d.panels, 1, getLibraryPanelsForDashboardID(d.Id))
         IN  [err |-> r.err, panels |-> r.panels, reads |-> 1]

LoadLibraryPanelsForDashboard(storeOk) ==
    LET r == LoadResult(dash, storeOk) IN
    /\ dash' = [dash EXCEPT !.panels = r.panels]
    /\ last' = [op |-> "Load", err |-> r.err, pre |-> dash.panels,
                preLinks |-> links, storeOk |-> storeOk,
                reads |-> r.reads, writes |-> 0]
    /\ prev' = last
    /\ UNCHANGED <<cfg, library, links>>

-----------------------------------------------------------------------------
(* CleanLibraryPanelsForDashboard *)

\* Fault variant: a missing id defaults to 0, not to the index.
CleanedEntry_DefaultsIdToZero(panel, i) ==
    [id           |-> MustInt64(panel, "id", 0),
     gridPos      |-> MustMap(panel, "gridPos"),
     libraryPanel |-> [uid  |-> MustString(panel.libraryPanel, "uid"),
                       name |-> MustString(panel.libraryPanel, "name")]]

\* Lines 128-137: the three-field form; i is the Go index of the entry.
CleanedEntry(panel, i) ==
    [id           |-> MustInt64(panel, "id", i),
     gridPos      |-> MustMap(panel, "gridPos"),
     libraryPanel |-> [uid  |-> MustString(panel.libraryPanel, "uid"),
                       name |-> MustString(panel.libraryPanel, "name")]]

\* Fault variant: the name is not checked.
CleanEntry_SkipsNameCheck(panels, pos) ==
    LET panel == panels[pos] IN
    IF ~IsLibraryEntry(panel)
    THEN [err |-> "nil", panels |-> panels]
    ELSE IF Len(MustString(panel.libraryPanel, "uid")) = 0
    THEN [err |-> "no-uid", panels |-> panels]
    ELSE [err |-> "nil",
          panels |-> SetIndex(panels, pos, CleanedEntry(panel, pos - 1))]

\* Fault variant: an entry without reference is reduced to id and gridPos.
CleanEntry_ReducesPlain(panels, pos) ==
    LET panel == panels[pos] IN
    IF ~IsLibraryEntry(panel)
    THEN [err |-> "nil",
          panels |-> SetIndex(panels, pos,
                              [id      |-> MustInt64(panel, "id", pos - 1),
                               gridPos |-> MustMap(panel, "gridPos")])]
    ELSE IF Len(MustString(panel.libraryPanel, "uid")) = 0
    THEN [err |-> "no-uid", panels |-> panels]
    ELSE IF Len(MustString(panel.libraryPanel, "name")) = 0
    THEN [err |-> "no-name", panels |-> panels]
    ELSE [err |-> "nil",
          panels |-> SetIndex(panels, pos, CleanedEntry(panel, pos - 1))]

\* One iteration of the loop of lines 111-138 at position pos.
CleanEntry(panels, pos) ==
    LET panel == panels[pos] IN
    IF ~IsLibraryEntry(panel)
    THEN [err |-> "nil", panels |-> panels]
    ELSE IF Len(MustString(panel.libraryPanel, "uid")) = 0
    THEN [err |-> "no-uid", panels |-> panels]
    ELSE IF Len(MustString(panel.libraryPanel, "name")) = 0
    THEN [err |-> "no-name", panels |-> panels]
    ELSE [err |-> "nil",
          panels |-> SetIndex(panels, pos, CleanedEntry(panel, pos - 1))]

RECURSIVE CleanLoop(_, _)
CleanLoop(panels, pos) ==
    IF pos > Len(panels)
    THEN [err |-> "nil", panels |-> panels]
    ELSE LET r == CleanEntry(panels, pos) IN
         IF r.err # "nil" THEN r ELSE CleanLoop(r.panels, pos + 1)

CleanResult(d) ==
    IF ~IsEnabled
    THEN [err |-> "nil", panels |-> d.panels]
    ELSE CleanLoop(d.panels, 1)

CleanLibraryPanelsForDashboard ==
    LET r == CleanResult(dash) IN
    /\ dash' = [dash EXCEPT !.panels = r.panels]
    /\ last' = [op |-> "Clean", err |-> r.err, pre |-> dash.panels,
                preLinks |-> links, storeOk |-> TRUE,
                reads |-> 0, writes |-> 0]
    /\ prev' = last
    /\ UNCHANGED <<cfg, library, links>>

-----------------------------------------------------------------------------
(* ConnectLibraryPanelsForDashboard *)

\* Fault variant: the test of line 157 is inverted, so that every entry with
\* a reference is skipped.
ConnectEntry_SkipsReferences(panel, dashboardID, st, storeOk) ==
    IF IsLibraryEntry(panel)
    THEN st
    ELSE [st EXCEPT !.err = "no-uid"]

\* One iteration of the loop of lines 154-170: the error, the link table
\* and the number of store writes attempted so far.
ConnectEntry(panel, dashboardID, st, storeOk) ==
    IF ~IsLibraryEntry(panel)
    THEN st
    ELSE LET uid == MustString(panel.libraryPanel, "uid") IN
         IF Len(uid) = 0
         THEN [st EXCEPT !.err = "no-uid"]
         ELSE IF ~storeOk
         THEN [st EXCEPT !.err = "store", !.writes = @ + 1]
         ELSE [st EXCEPT !.rows = connectDashboard(@, uid, dashboardID),
                         !.writes = @ + 1]

RECURSIVE ConnectLoop(_, _, _, _, _)
ConnectLoop(panels, pos, dashboardID, st, storeOk) ==
    IF pos > Len(panels)
    THEN st
    ELSE LET r == ConnectEntry(panels[pos], dashboardID, st, storeOk) IN
         IF r.err # "nil" THEN r
         ELSE ConnectLoop(panels, pos + 1, dashboardID, r, storeOk)

ConnectResult(d, storeOk) ==
    IF ~IsEnabled
    THEN [err |-> "nil", rows |-> links, writes |-> 0]
    ELSE IF d.Id = 0 \/ d.Uid = ""
    THEN [err |-> "missing-id", rows |-> links, writes |-> 0]
    ELSE ConnectLoop(d.panels, 1, d.Id,
                     [err |-> "nil", rows |-> links, writes |-> 0], storeOk)

ConnectLibraryPanelsForDashboard(storeOk) ==
    LET r == ConnectResult(dash, storeOk) IN
    /\ links' = r.rows
    /\ last' = [op |-> "Connect", err |-> r.err, pre |-> dash.panels,
                preLinks |-> links, storeOk |-> storeOk,
                reads |-> 0, writes |-> r.writes]
    /\ prev' = last
    /\ UNCHANGED <<cfg, dash, library>>

-----------------------------------------------------------------------------
Next ==
    \/ \E storeOk \in BOOLEAN : LoadLibraryPanelsForDashboard(storeOk)
    \/ CleanLibraryPanelsForDashboard
    \/ \E storeOk \in BOOLEAN : ConnectLibraryPanelsForDashboard(storeOk)

Spec == Init /\ [][Next]_vars

-----------------------------------------------------------------------------
(* Vocabulary of the properties *)

Enabled == cfg = "enabled"

LibraryPositions(panels) ==
    { pos \in DOMAIN panels : "libraryPanel" \in DOMAIN panels[pos] }

RefUid(panel) ==
    IF "uid" \in DOMAIN panel.libraryPanel THEN panel.libraryPanel.uid ELSE ""

RefName(panel) ==
    IF "name" \in DOMAIN panel.libraryPanel THEN panel.libraryPanel.name ELSE ""

\* The panels connected to the dashboard when the last call started.
Connected == getLibraryPanelsForDashboardID(dash.Id)

\* Positions whose reference Expand must reject.
InvalidForLoad(panels) ==
    { pos \in LibraryPositions(panels) :
        RefUid(panels[pos]) = "" \/ RefUid(panels[pos]) \notin DOMAIN Connected }

\* Positions whose reference Collapse must reject.
InvalidForClean(panels) ==
    { pos \in LibraryPositions(panels) :
        RefUid(panels[pos]) = "" \/ RefName(panels[pos]) = "" }

First(S) == CHOOSE pos \in S : \A q \in S : pos <= q

LoadSucceeded == Enabled /\ last.op = "Load" /\ last.err = "nil"
CleanSucceeded == Enabled /\ last.op = "Clean" /\ last.err = "nil"

\* The last two calls were a successful Expand and then a Collapse, of a
\* dashboard d = prev.pre whose references all carry a uid and a name.
RoundTripped ==
    /\ Enabled
    /\ prev.op = "Load" /\ prev.err = "nil" /\ prev.storeOk
    /\ last.op = "Clean"
    /\ InvalidForClean(prev.pre) = {}

\* Collapse(d) computed on its own.
DirectClean(d) == CleanLoop(d, 1)

-----------------------------------------------------------------------------
\* C1 (as stated): for a dashboard d whose references are valid and connected,
\* Collapse(Expand(d)) is the panel array Collapse(d) yields, also when the
\* stored name differs from the embedded one and when an entry has no id.
C1_RoundTripEqualsCollapse ==
    RoundTripped =>
        /\ last.err = "nil"
        /\ dash.panels = DirectClean(prev.pre).panels

\* What Collapse(Expand(d)) holds at a library-linked position: Collapse(d)'s
\* entry with the stored name, and with id 0 where d's entry has no id.
RoundTripEntry(d, pos) ==
    [id           |-> IF "id" \in DOMAIN d[pos] THEN d[pos].id ELSE 0,
     gridPos      |-> DirectClean(d).panels[pos].gridPos,
     libraryPanel |-> [uid  |-> RefUid(d[pos]),
                       name |-> library[RefUid(d[pos])].Name]]

\* C1 (amended): Collapse(Expand(d)) succeeds and equals Collapse(d) except
\* that every library-linked entry carries the stored name, and id 0 where the
\* entry of d has no id field.
C1_RoundTripUpToNameAndId ==
    RoundTripped =>
        /\ last.err = "nil"
        /\ DirectClean(prev.pre).err = "nil"
        /\ Len(dash.panels) = Len(prev.pre)
        /\ \A pos \in DOMAIN prev.pre :
              dash.panels[pos] =
                 IF pos \in LibraryPositions(prev.pre)
                 THEN RoundTripEntry(prev.pre, pos)
                 ELSE DirectClean(prev.pre).panels[pos]

\* A round trip of a dashboard with a renamed panel and an entry without id
\* at index 1.
C1_Witness ==
    /\ RoundTripped
    /\ Len(prev.pre) = 2
    /\ LibraryPositions(prev.pre) = {1, 2}
    /\ RefName(prev.pre[1]) # library[RefUid(prev.pre[1])].Name
    /\ "id" \notin DOMAIN prev.pre[2]

-----------------------------------------------------------------------------
\* C2 (as stated): when Expand or Collapse returns an error, the panel array
\* is what it was before the call.
C2_ErrorLeavesPanelsUntouched ==
    (Enabled /\ last.op \in {"Load", "Clean"} /\ last.err # "nil")
        => dash.panels = last.pre

-----------------------------------------------------------------------------
\* A persisted dashboard whose references all carry a uid.
Linkable(panels) ==
    /\ dash.Id # 0 /\ dash.Uid # ""
    /\ \A pos \in LibraryPositions(panels) : RefUid(panels[pos]) # ""

RowsFor(uid, dashboardID) ==
    { k \in DOMAIN links : links[k] = LinkRow(uid, dashboardID) }

\* C3 (as stated): Link on a persisted dashboard returns no error on every
\* call and leaves exactly one row per (library panel, dashboard) pair; the
\* link table never holds two rows for a pair.
C3_LinkNeverFails ==
    /\ (Enabled /\ last.op = "Connect" /\ Linkable(last.pre))
          => /\ last.err = "nil"
             /\ \A pos \in LibraryPositions(last.pre) :
                   Cardinality(RowsFor(RefUid(last.pre[pos]), dash.Id)) = 1
    /\ \A j, k \in DOMAIN links : links[j] = links[k] => j = k

\* C3 (amended): the same, for the calls in which the store accepts the
\* upsert; a call in which it does not returns the store's error.
C3_LinkIdempotent ==
    /\ (Enabled /\ last.op = "Connect" /\ Linkable(last.pre) /\ last.storeOk)
          => /\ last.err = "nil"
             /\ \A pos \in LibraryPositions(last.pre) :
                   Cardinality(RowsFor(RefUid(last.pre[pos]), dash.Id)) = 1
    /\ (Enabled /\ last.op = "Connect" /\ Linkable(last.pre) /\ ~last.storeOk)
          => last.err \in {"nil", "store"}
    /\ \A j, k \in DOMAIN links : links[j] = links[k] => j = k

\* Link called a second time in a row on a dashboard in which two entries
\* reference the same library panel, the pair being linked already.
C3_Witness ==
    /\ Enabled /\ last.op = "Connect" /\ prev.op = "Connect"
    /\ last.err = "nil" /\ prev.err = "nil"
    /\ Len(last.pre) = 2 /\ LibraryPositions(last.pre) = {1, 2}
    /\ RefUid(last.pre[1]) = RefUid(last.pre[2])
    /\ last.writes = 2
    /\ RowsFor(RefUid(last.pre[1]), dash.Id) # {}
    /\ links = last.preLinks

-----------------------------------------------------------------------------
\* C4: with the feature off (Cfg nil included) every call returns no error,
\* leaves document and link table as they were and makes no store access.
C4_DisabledIsNoOp ==
    (cfg # "enabled" /\ last.op # "none") =>
        /\ last.err = "nil"
        /\ dash.panels = last.pre
        /\ links = last.preLinks
        /\ last.reads = 0 /\ last.writes = 0

\* Link with Cfg nil on an unsaved dashboard with a malformed reference.
C4_Witness ==
    /\ cfg = "nil" /\ last.op = "Connect" /\ prev.op = "Load"
    /\ dash.Id = 0
    /\ InvalidForClean(dash.panels) # {}

-----------------------------------------------------------------------------
C5_WitnessAbsent ==
    Enabled /\ last.op = "Load" /\ last.storeOk /\ ~dash.hasPanels

-----------------------------------------------------------------------------
\* C6: with the lookup succeeding Expand fails exactly when a library-linked
\* entry is invalid, with the error of the first such entry: no-uid when its
\* uid is empty, no-connection when its uid is not connected.
C6_LoadErrorIsFirstInvalid ==
    (Enabled /\ last.op = "Load" /\ last.storeOk) =>
        last.err =
            IF InvalidForLoad(last.pre) = {} THEN "nil"
            ELSE IF RefUid(last.pre[First(InvalidForLoad(last.pre))]) = ""
                 THEN "no-uid"
                 ELSE "no-connection"

\* Expand of a dashboard whose first invalid entry has an empty uid and
\* whose second is dangling.
C6_Witness ==
    /\ Enabled /\ last.op = "Load" /\ last.storeOk
    /\ InvalidForLoad(last.pre) = {1, 2}
    /\ RefUid(last.pre[1]) = "" /\ RefUid(last.pre[2]) # ""
    /\ last.err = "no-uid"

-----------------------------------------------------------------------------
\* C7: Collapse fails, with a malformed-reference error, exactly when an entry
\* with a library reference has an empty uid or an empty name.
C7_CleanFailsIffMalformed ==
    (Enabled /\ last.op = "Clean") =>
        /\ last.err \in {"nil", "no-uid", "no-name"}
        /\ (last.err # "nil") <=> (InvalidForClean(last.pre) # {})

\* Collapse of a plain entry followed by a reference without name.
C7_Witness ==
    /\ Enabled /\ last.op = "Clean" /\ last.err = "no-name"
    /\ Len(last.pre) = 2 /\ LibraryPositions(last.pre) = {2}

-----------------------------------------------------------------------------
-----------------------------------------------------------------------------
\* C9: after a successful Collapse an entry with a library reference is
\* exactly {id, gridPos, libraryPanel{uid, name}}, id being the entry's own
\* or, when absent, its array index; other entries are unchanged.
C9_CollapsedEntryShape ==
    CleanSucceeded =>
        /\ Len(dash.panels) = Len(last.pre)
        /\ \A pos \in DOMAIN last.pre :
              LET old == last.pre[pos]
                  new == dash.panels[pos]
              IN  IF pos \notin LibraryPositions(last.pre)
                  THEN new = old
                  ELSE /\ DOMAIN new = {"id", "gridPos", "libraryPanel"}
                       /\ new.id = IF "id" \in DOMAIN old THEN old.id ELSE pos - 1
                       /\ new.gridPos =
                             IF "gridPos" \in DOMAIN old THEN old.gridPos ELSE NilMap
                       /\ new.libraryPanel =
                             [uid |-> old.libraryPanel.uid,
                              name |-> old.libraryPanel.name]

\* Collapse of an expanded entry and, at index 1, of an entry without id.
C9_Witness ==
    /\ CleanSucceeded
    /\ Len(last.pre) = 2 /\ LibraryPositions(last.pre) = {1, 2}
    /\ "type" \in DOMAIN last.pre[1]
    /\ "id" \notin DOMAIN last.pre[2]
    /\ dash.panels[2].id = 1

-----------------------------------------------------------------------------
\* C10 (as stated): Link fails with a validation error on a dashboard without
\* Id or Uid and with a malformed-reference error on a reference without uid,
\* and whenever it returns an error the link table holds the rows it held
\* before the call.
C10_LinkErrorLeavesTableUntouched ==
    (Enabled /\ last.op = "Connect") =>
        /\ (dash.Id = 0 \/ dash.Uid = "") => last.err = "missing-id"
        /\ (dash.Id # 0 /\ dash.Uid # "" /\ last.storeOk
              /\ \E pos \in LibraryPositions(last.pre) : RefUid(last.pre[pos]) = "")
             => last.err = "no-uid"
        /\ last.err # "nil" => links = last.preLinks

====
